---- MODULE Spec2Model ----
(***************************************************************************)
(* Model of crates/zed/src/feedback_popover.rs: the status-bar feedback    *)
(* button, the popover it owns, and the detached task that posts the       *)
(* feedback to the server.                                                 *)
(***************************************************************************)
EXTENDS Integers, Sequences, FiniteSets, TLC

\* ------------------------------------------------------------------ bounds
MaxTasks == 2          \* submissions spawned in one run
MaxViewId == 4         \* view ids handed out in one run (two per popover)

\* --------------------------------------------------------------- constants
\* Option<T>: None is the empty sequence, Some(x) the sequence of x alone
None == << >>
Some(x) == << x >>
unwrap(o) == o[1]

FEEDBACK_CHAR_COUNT_RANGE == [start |-> 5, end |-> 1000]

ZED_SECRET_CLIENT_TOKEN == "ZED_SECRET_CLIENT_TOKEN"

UsizeLimbs == 4        \* a usize is 64 bits: four limbs of 16 bits
LimbBase == 65536

\* ------------------------------------------------------------------- texts
\* A text is a sequence of runs [ch, n] (n > 0 copies of ch); <<>> is "".
Text(c, n) == IF n = 0 THEN << >> ELSE << [ch |-> c, n |-> n] >>

RECURSIVE TextLen(_)
TextLen(t) == IF t = << >> THEN 0 ELSE Head(t).n + TextLen(Tail(t))

\* empty, shorter than the range's start, longer than its end
TextLens == {0, 4, 1001}
Texts == { Text("x", n) : n \in TextLens }

\* ------------------------------------------------------------ usize maths
ToUsize(n) == << n % LimbBase, n \div LimbBase, 0, 0 >>

RECURSIVE SubLimbs(_, _, _, _)
\* limbs i..UsizeLimbs of a - b - borrow, followed by the final borrow
SubLimbs(a, b, i, borrow) ==
    IF i > UsizeLimbs THEN << borrow >>
    ELSE LET d == a[i] - b[i] - borrow
         IN  IF d < 0 THEN << d + LimbBase >> \o SubLimbs(a, b, i + 1, 1)
                      ELSE << d >> \o SubLimbs(a, b, i + 1, 0)

\* usize subtraction: the wrapped difference and whether it overflowed
usize_sub(a, b) ==
    LET r == SubLimbs(ToUsize(a), ToUsize(b), 1, 0)
    IN  [value |-> SubSeq(r, 1, UsizeLimbs), overflow |-> r[UsizeLimbs + 1] = 1]

\* ------------------------------------------------------------------- state
VARIABLES
    zed_server_url_env,        \* value of the ZED_SERVER_URL environment variable
    metrics_id,                \* Client::metrics_id()
    feedback_popover,          \* FeedbackButton.feedback_popover
    views,                     \* live views: id -> FeedbackPopover or Editor
    next_view_id,              \* last view id handed out by add_view
    focus,                     \* focused view of this file, or None
    rendered,                  \* element tree of the button's last render
    tasks,                     \* detached submission tasks, in spawn order
    feedback_chars_remaining,  \* last value printed by the edit subscription
    panicked                   \* the process died of a panic

ui == << feedback_popover, views, next_view_id, focus, rendered >>

vars == << zed_server_url_env, metrics_id, feedback_popover, views, next_view_id,
           focus, rendered, tasks, feedback_chars_remaining, panicked >>

\* ------------------------------------------------------------ environment
WellFormedUrl == "http://localhost:3000"
IllFormedUrl == "not a url"
ServerUrlEnvs == {None, Some(WellFormedUrl), Some(IllFormedUrl)}

ZED_SERVER_URL ==
    IF zed_server_url_env = None THEN "https://zed.dev" ELSE unwrap(zed_server_url_env)

\* Request::post(uri) rejects a uri that does not parse
UriParses(uri) == uri # IllFormedUrl \o "/api/feedback"

SystemSpecs_new == [os_name |-> "macOS", architecture |-> "aarch64"]

Statuses == {200, 300}
is_success(status) == 200 <= status /\ status <= 299

\* -------------------------------------------------------------- rendering
\* FeedbackButton::render: the label, and the overlay when a popover is held
FeedbackButton_render(popover) ==
    [ label_active |-> popover # None,
      overlays     |-> IF popover = None THEN << >> ELSE << unwrap(popover) >> ]

Init ==
    /\ zed_server_url_env \in ServerUrlEnvs
    /\ metrics_id = None
    /\ feedback_popover = None
    /\ views = << >>
    /\ next_view_id = 0
    /\ focus = None
    /\ rendered = FeedbackButton_render(None)
    /\ tasks = << >>
    /\ feedback_chars_remaining = None
    /\ panicked = FALSE

\* ------------------------------------------------------------------ button
Restrict(f, S) == [x \in S |-> f[x]]

\* mutation: the editor is created but never focused
FeedbackPopover_new_unfocused(pid, eid) ==
    /\ views' = [v \in DOMAIN views \cup {pid, eid} |->
                    IF v = pid THEN [kind |-> "FeedbackPopover", feedback_editor |-> eid]
                    ELSE IF v = eid THEN [kind |-> "Editor", text |-> Text("x", 0)]
                    ELSE views[v]]
    /\ focus' = focus

\* FeedbackPopover::new: add the editor view, focus it
FeedbackPopover_new(pid, eid) ==
    /\ views' = [v \in DOMAIN views \cup {pid, eid} |->
                    IF v = pid THEN [kind |-> "FeedbackPopover", feedback_editor |-> eid]
                    ELSE IF v = eid THEN [kind |-> "Editor", text |-> Text("x", 0)]
                    ELSE views[v]]
    /\ focus' = Some(eid)

\* the None arm of toggle_feedback
OpenPopover ==
    /\ next_view_id + 2 <= MaxViewId
    /\ LET pid == next_view_id + 1
           eid == next_view_id + 2
       IN  /\ FeedbackPopover_new(pid, eid)
           /\ feedback_popover' = Some(pid)
           /\ next_view_id' = eid

\* mutation: the Some(_) arm puts the handle back
ClosePopover_put_back ==
    UNCHANGED << feedback_popover, views, focus, next_view_id >>

\* the Some(_) arm of toggle_feedback: take() has emptied the slot and the
\* handle taken out is dropped, releasing the popover and its editor
ClosePopover ==
    LET popover == unwrap(feedback_popover)
        dropped == {popover, views[popover].feedback_editor}
    IN  /\ feedback_popover' = None
        /\ views' = Restrict(views, DOMAIN views \ dropped)
        /\ focus' = IF focus # None /\ unwrap(focus) \in dropped THEN None ELSE focus
        /\ UNCHANGED next_view_id

\* mutation: the slot is matched by reference (as_ref) instead of taken
toggle_feedback_as_ref ==
    /\ IF feedback_popover # None
       THEN UNCHANGED << feedback_popover, views, focus, next_view_id >>
       ELSE OpenPopover
    /\ rendered' = FeedbackButton_render(feedback_popover')

\* mutation: cx.notify() is left out, the button is not rendered again
toggle_feedback_no_notify ==
    /\ IF feedback_popover # None THEN ClosePopover ELSE OpenPopover
    /\ rendered' = rendered

toggle_feedback ==
    /\ IF feedback_popover # None THEN ClosePopover ELSE OpenPopover
    /\ rendered' = FeedbackButton_render(feedback_popover')      \* cx.notify()

\* ----------------------------------------------------------------- popover
\* mutation: the task reads the editor when it runs, not what was captured
FeedbackRequestBody_live(task) ==
    [ feedback_text |-> IF feedback_popover = None THEN Text("x", 0)
                        ELSE views[views[unwrap(feedback_popover)].feedback_editor].text,
      metrics_id    |-> task.metrics_id,
      system_specs  |-> task.system_specs,
      token         |-> ZED_SECRET_CLIENT_TOKEN ]

\* the value serialized by the task, from what submit_feedback captured
FeedbackRequestBody(task) ==
    [ feedback_text |-> task.feedback_text,
      metrics_id    |-> task.metrics_id,
      system_specs  |-> task.system_specs,
      token         |-> ZED_SECRET_CLIENT_TOKEN ]

\* the captures of submit_feedback, moved into the spawned future
SpawnedTask ==
    [ feedback_text     |-> views[views[unwrap(feedback_popover)].feedback_editor].text,
      metrics_id        |-> metrics_id,
      system_specs      |-> SystemSpecs_new,
      feedback_endpoint |-> ZED_SERVER_URL \o "/api/feedback",
      pc                |-> "spawned",
      failed_at         |-> None,
      status            |-> None,
      result            |-> "pending",
      requests          |-> << >> ]

\* mutation: the handler returns early unless the text length is in the range
submit_feedback_in_range ==
    /\ feedback_popover # None
    /\ Len(tasks) < MaxTasks
    /\ LET len == TextLen(SpawnedTask.feedback_text)
       IN  IF FEEDBACK_CHAR_COUNT_RANGE.start <= len /\ len < FEEDBACK_CHAR_COUNT_RANGE.end
           THEN tasks' = Append(tasks, SpawnedTask)
           ELSE tasks' = tasks

\* FeedbackPopover::submit_feedback: spawn the task and detach it
submit_feedback ==
    /\ feedback_popover # None
    /\ Len(tasks) < MaxTasks
    /\ tasks' = Append(tasks, SpawnedTask)

\* the editor's BufferEdited subscription registered by FeedbackPopover::new
BufferEdited(buffer_len) ==
    LET r == usize_sub(FEEDBACK_CHAR_COUNT_RANGE.end, buffer_len)
    IN  \/ /\ ~r.overflow
           /\ feedback_chars_remaining' = Some(r.value)
           /\ panicked' = FALSE
        \/ /\ r.overflow                 \* overflow checks off: the difference wraps
           /\ feedback_chars_remaining' = Some(r.value)
           /\ panicked' = FALSE
        \/ /\ r.overflow                 \* overflow checks on: the subtraction panics
           /\ feedback_chars_remaining' = feedback_chars_remaining
           /\ panicked' = TRUE

\* ------------------------------------------------------------ detached task
Finish(task, failed_at, status, result) ==
    [task EXCEPT !.pc = "done", !.failed_at = failed_at, !.status = status,
                 !.result = result]

\* first poll: serialize, build the request, hand it to the http client
TaskRun(task, to_vec_ok) ==
    IF ~to_vec_ok THEN Finish(task, Some("to_vec"), None, "Err")
    ELSE IF ~UriParses(task.feedback_endpoint) THEN Finish(task, Some("body"), None, "Err")
    ELSE [task EXCEPT !.pc = "sending",
                      !.requests = Append(@, [ method  |-> "POST",
                                               uri     |-> task.feedback_endpoint,
                                               header  |-> << "content-type", "application/json" >>,
                                               body    |-> FeedbackRequestBody(task) ])]

\* mutation: the bail!() on a non-success status is left out
TaskResume_no_bail(task, transport_ok, status) ==
    IF ~transport_ok THEN Finish(task, Some("send"), None, "Err")
    ELSE Finish(task, None, Some(status), "Ok")

\* the awaits resolve: a transport error (from send, or from reading the
\* response body), or a response with a status
TaskResume(task, transport_ok, status) ==
    IF ~transport_ok THEN Finish(task, Some("send"), None, "Err")
    ELSE IF ~is_success(status) THEN Finish(task, None, Some(status), "Err")
    ELSE Finish(task, None, Some(status), "Ok")

\* ----------------------------------------------------------------- actions
\* mutation: the tasks are owned by the popover, and dropped with it
ToggleFeedbackPopover_cancelling ==
    /\ ~panicked
    /\ toggle_feedback
    /\ tasks' = IF feedback_popover # None
                THEN SelectSeq(tasks, LAMBDA t : t.pc = "done")
                ELSE tasks
    /\ UNCHANGED << zed_server_url_env, metrics_id, feedback_chars_remaining, panicked >>

\* the ToggleFeedbackPopover action (the button's click handler dispatches it)
ToggleFeedbackPopover ==
    /\ ~panicked
    /\ toggle_feedback
    /\ UNCHANGED << zed_server_url_env, metrics_id, tasks, feedback_chars_remaining, panicked >>

\* the SubmitFeedback action dispatched on its own
SubmitFeedback ==
    /\ ~panicked
    /\ submit_feedback
    /\ UNCHANGED << zed_server_url_env, metrics_id, ui, feedback_chars_remaining, panicked >>

\* the actions one left click on "Submit Feedback" dispatches: every handler
\* registered for the click runs, in the order of registration
DispatchedOnClick == << "SubmitFeedback", "ToggleFeedbackPopover" >>

Dispatches(action) == \E k \in 1..Len(DispatchedOnClick) : DispatchedOnClick[k] = action

\* a left click on "Submit Feedback". SubmitFeedback is handled first and reads
\* the editor before the toggle releases the popover; the two handlers write
\* disjoint state, so their composition is the conjunction.
ClickSubmit ==
    /\ ~panicked
    /\ IF Dispatches("SubmitFeedback") THEN submit_feedback ELSE UNCHANGED tasks
    /\ IF Dispatches("ToggleFeedbackPopover") THEN toggle_feedback ELSE UNCHANGED ui
    /\ UNCHANGED << zed_server_url_env, metrics_id, feedback_chars_remaining, panicked >>

\* the user edits the focused editor; the subscription runs on the event
EditBuffer ==
    /\ ~panicked
    /\ feedback_popover # None
    /\ LET eid == views[unwrap(feedback_popover)].feedback_editor
       IN  /\ focus = Some(eid)
           /\ \E t \in Texts \ {views[eid].text} :
                /\ views' = [views EXCEPT ![eid].text = t]
                /\ BufferEdited(TextLen(t))
    /\ UNCHANGED << zed_server_url_env, metrics_id, feedback_popover, next_view_id,
                    focus, rendered, tasks >>

TaskStart ==
    /\ ~panicked
    /\ \E i \in 1..Len(tasks) :
         /\ tasks[i].pc = "spawned"
         /\ \E to_vec_ok \in BOOLEAN :
              tasks' = [tasks EXCEPT ![i] = TaskRun(tasks[i], to_vec_ok)]
    /\ UNCHANGED << zed_server_url_env, metrics_id, ui, feedback_chars_remaining, panicked >>

\* mutation: a failed submission is surfaced, the button renders as inactive
TaskRespond_surfacing ==
    /\ ~panicked
    /\ \E i \in 1..Len(tasks) :
         /\ tasks[i].pc = "sending"
         /\ \E transport_ok \in BOOLEAN, status \in Statuses :
              /\ tasks' = [tasks EXCEPT ![i] = TaskResume(tasks[i], transport_ok, status)]
              /\ rendered' = IF tasks'[i].result = "Err"
                             THEN [rendered EXCEPT !.label_active = FALSE]
                             ELSE rendered
    /\ UNCHANGED << zed_server_url_env, metrics_id, feedback_popover, views, next_view_id,
                    focus, feedback_chars_remaining, panicked >>

TaskRespond ==
    /\ ~panicked
    /\ \E i \in 1..Len(tasks) :
         /\ tasks[i].pc = "sending"
         /\ \E transport_ok \in BOOLEAN, status \in Statuses :
              tasks' = [tasks EXCEPT ![i] = TaskResume(tasks[i], transport_ok, status)]
    /\ UNCHANGED << zed_server_url_env, metrics_id, ui, feedback_chars_remaining, panicked >>

\* the client is assigned its metrics id (once, on sign-in)
SetMetricsId ==
    /\ ~panicked
    /\ metrics_id = None
    /\ metrics_id' = Some("metrics-1")
    /\ UNCHANGED << zed_server_url_env, ui, tasks, feedback_chars_remaining, panicked >>

Next ==
    \/ ToggleFeedbackPopover
    \/ SubmitFeedback
    \/ ClickSubmit
    \/ EditBuffer
    \/ TaskStart
    \/ TaskRespond
    \/ SetMetricsId

Spec == Init /\ [][Next]_vars

\* ------------------------------------------------------------------ claims
Open == feedback_popover # None

PopoverViews(vs) == { v \in DOMAIN vs : vs[v].kind = "FeedbackPopover" }
EditorViews(vs) == { v \in DOMAIN vs : vs[v].kind = "Editor" }

\* C1 as stated: a toggle handled while the popover is open is a no-op, the
\* reference is kept and the popover stays open.
C1_ToggleWhenOpenIsNoOp ==
    [][(Open /\ ToggleFeedbackPopover) => (feedback_popover' = feedback_popover)]_vars

\* C1 amended: while the popover is open the toggle can be handled, and every
\* handling of it empties the button's reference, releases the popover and its
\* editor, and leaves no overlay rendered.
C1_ToggleWhenOpenCloses ==
    (Open /\ ~panicked) =>
        /\ ENABLED ToggleFeedbackPopover
        /\ ~ ENABLED ( /\ ToggleFeedbackPopover
                       /\ ~ ( /\ feedback_popover' = None
                              /\ views' = << >>
                              /\ rendered'.overlays = << >>
                              /\ ~ rendered'.label_active
                              /\ next_view_id' = next_view_id ) )

\* a popover was opened and closed again, and no submit click ever happened
C1_Witness ==
    /\ feedback_popover = None
    /\ next_view_id > 0
    /\ tasks = << >>

\* C2: a toggle handled while the popover is closed creates exactly one new
\* popover view with exactly one new editor view, stores the popover in the
\* button's slot, and focuses that popover's editor.
C2_ToggleWhenClosedOpens ==
    [][(~Open /\ ToggleFeedbackPopover) =>
         LET new == DOMAIN views' \ DOMAIN views
         IN  /\ DOMAIN views \subseteq DOMAIN views'
             /\ \A v \in new : v > next_view_id
             /\ Cardinality(new \cap PopoverViews(views')) = 1
             /\ Cardinality(new \cap EditorViews(views')) = 1
             /\ Cardinality(new) = 2
             /\ feedback_popover' # None
             /\ unwrap(feedback_popover') \in new \cap PopoverViews(views')
             /\ views'[unwrap(feedback_popover')].feedback_editor \in new \cap EditorViews(views')
             /\ focus' = Some(views'[unwrap(feedback_popover')].feedback_editor)
             /\ views'[views'[unwrap(feedback_popover')].feedback_editor].text = Text("x", 0)
    ]_vars

\* the popover was opened a second time, and its fresh editor has the focus
C2_Witness ==
    /\ Open
    /\ next_view_id = 4
    /\ focus = Some(views[unwrap(feedback_popover)].feedback_editor)
    /\ unwrap(feedback_popover) = 3

\* C3: once a click on the submit button is handled the button's reference is
\* absent, and the request it spawned has not been waited for.
C3_ClickSubmitCloses ==
    [][ClickSubmit =>
         /\ feedback_popover' = None
         /\ Len(tasks') = Len(tasks) + 1
         /\ tasks'[Len(tasks')].pc = "spawned"
         /\ \A i \in 1..Len(tasks) : tasks'[i] = tasks[i]
    ]_vars

\* the popover is closed while requests are pending, in flight and ended
C3_Witness ==
    /\ feedback_popover = None
    /\ Len(tasks) = MaxTasks
    /\ tasks[Len(tasks)].pc = "spawned"
    /\ \E i \in 1..Len(tasks) : tasks[i].pc = "done"

\* C5: the button holds zero or one popover, at most one popover view is
\* alive, and the overlay is rendered exactly when the reference is present
\* (and it shows the popover referenced).
C5_AtMostOnePopover ==
    /\ Len(feedback_popover) <= 1
    /\ Cardinality(PopoverViews(views)) <= 1
    /\ Cardinality(EditorViews(views)) <= 1
    /\ PopoverViews(views) = { feedback_popover[k] : k \in 1..Len(feedback_popover) }
    /\ rendered.overlays = feedback_popover
    /\ rendered.label_active = Open

\* a second popover is open after a submission and an edit
C5_Witness ==
    /\ Open
    /\ next_view_id = 4
    /\ Len(tasks) >= 1
    /\ views[views[unwrap(feedback_popover)].feedback_editor].text # Text("x", 0)

Ended(task) == task.pc = "done"

PostTo(request, url) ==
    /\ request.method = "POST"
    /\ request.uri = url \o "/api/feedback"
    /\ request.header = << "content-type", "application/json" >>

BaseUrl ==
    IF zed_server_url_env = None THEN "https://zed.dev" ELSE zed_server_url_env[1]

\* C4 as stated: every submit action results in exactly one POST to
\* {base_url}/api/feedback: a submission that has ended has sent exactly one.
C4_EverySubmitPostsOnce ==
    \A i \in 1..Len(tasks) :
        Ended(tasks[i]) =>
            /\ Len(tasks[i].requests) = 1
            /\ PostTo(tasks[i].requests[1], BaseUrl)

\* C4 amended: every submit action, by the action alone or by the click, and
\* whatever the length of the text, spawns exactly one submission; a
\* submission sends at most one request, a POST to {base_url}/api/feedback,
\* and sends exactly one unless serialization or request construction fails,
\* in which case it sends none.
C4_SubmitPostsOnceUnlessBuildFails ==
    [][ /\ (SubmitFeedback \/ ClickSubmit) =>
              /\ Len(tasks') = Len(tasks) + 1
              /\ tasks'[Len(tasks')].pc = "spawned"
              /\ tasks'[Len(tasks')].requests = << >>
        /\ \A i \in 1..Len(tasks') :
              LET task == tasks'[i]
              IN  /\ Len(task.requests) <= 1
                  /\ \A k \in 1..Len(task.requests) : PostTo(task.requests[k], BaseUrl)
                  /\ task.pc = "spawned" => task.requests = << >>
                  /\ task.pc = "sending" => Len(task.requests) = 1
                  /\ Ended(task) =>
                        (Len(task.requests) = 1
                            <=> task.failed_at \notin {Some("to_vec"), Some("body")})
    ]_vars

\* requests were sent for an empty text and for a text over the range's end,
\* one of them to an overridden server url
C4_Witness ==
    /\ Len(tasks) = 2
    /\ TextLen(tasks[1].feedback_text) = 0
    /\ TextLen(tasks[2].feedback_text) > FEEDBACK_CHAR_COUNT_RANGE.end
    /\ \A i \in 1..2 : Len(tasks[i].requests) = 1
    /\ zed_server_url_env = Some(WellFormedUrl)

CurrentText ==
    views[views[unwrap(feedback_popover)].feedback_editor].text

\* C6: a submission captures the editor's text, the metrics id and the system
\* specs as they are when the submit action is handled; nothing changes what
\* it captured; the body of the request it sends carries exactly the captured
\* text, metrics id and specs, and the fixed token.
C6_BodyIsTextAtSubmit ==
    [][ /\ Len(tasks') >= Len(tasks)
        /\ \A i \in 1..Len(tasks) :
              /\ tasks'[i].feedback_text = tasks[i].feedback_text
              /\ tasks'[i].metrics_id = tasks[i].metrics_id
              /\ tasks'[i].system_specs = tasks[i].system_specs
              /\ \A k \in 1..Len(tasks[i].requests) :
                    /\ k <= Len(tasks'[i].requests)
                    /\ tasks'[i].requests[k] = tasks[i].requests[k]
        /\ \A i \in (Len(tasks) + 1)..Len(tasks') :
              /\ Open
              /\ tasks'[i].feedback_text = CurrentText
              /\ tasks'[i].metrics_id = metrics_id
              /\ tasks'[i].system_specs = SystemSpecs_new
        /\ \A i \in 1..Len(tasks') : \A k \in 1..Len(tasks'[i].requests) :
              tasks'[i].requests[k].body =
                  [ feedback_text |-> tasks'[i].feedback_text,
                    metrics_id    |-> tasks'[i].metrics_id,
                    system_specs  |-> tasks'[i].system_specs,
                    token         |-> ZED_SECRET_CLIENT_TOKEN ]
    ]_vars

\* the first popover is still open, its editor was edited after the submit,
\* the metrics id was assigned after it, and the request sent carries the
\* text and the (absent) metrics id of the time of the submit
C6_Witness ==
    /\ Open
    /\ next_view_id = 2
    /\ Len(tasks) >= 1
    /\ Len(tasks[1].requests) = 1
    /\ tasks[1].requests[1].body.feedback_text # CurrentText
    /\ tasks[1].requests[1].body.feedback_text # Text("x", 0)
    /\ tasks[1].requests[1].body.metrics_id = None
    /\ metrics_id # None

\* C7: the step that ends a submission, in failure as in success, changes
\* nothing of the interface: the reference, the views and their text, the
\* focus and what is rendered stay as they are.
C7_EndOfSubmissionLeavesUi ==
    [][ (\E i \in 1..Len(tasks) :
            /\ i <= Len(tasks')
            /\ ~Ended(tasks[i])
            /\ Ended(tasks'[i]))
        => UNCHANGED << ui, feedback_chars_remaining, panicked >>
    ]_vars

\* a submission failed on the response's status while its popover was open
C7_Witness ==
    /\ Open
    /\ \E i \in 1..Len(tasks) :
          /\ tasks[i].result = "Err"
          /\ tasks[i].status = Some(300)
    /\ \E i \in 1..Len(tasks) :
          /\ tasks[i].result = "Err"
          /\ tasks[i].failed_at = Some("send")

PcRank(pc) == IF pc = "spawned" THEN 0 ELSE IF pc = "sending" THEN 1 ELSE 2

\* C8: a submission once spawned is never removed, only moves forward
\* (spawned, sending, done), is frozen once done, and no step that opens or
\* closes the popover, spawns another submission or moves another submission
\* changes it.
C8_SubmissionsAreDetached ==
    [][ /\ Len(tasks') >= Len(tasks)
        /\ \A i \in 1..Len(tasks) :
              /\ PcRank(tasks'[i].pc) >= PcRank(tasks[i].pc)
              /\ Ended(tasks[i]) => tasks'[i] = tasks[i]
              /\ feedback_popover' # feedback_popover => tasks'[i] = tasks[i]
              /\ Len(tasks') > Len(tasks) => tasks'[i] = tasks[i]
              /\ tasks'[i] # tasks[i] =>
                    \A j \in 1..Len(tasks) : j # i => tasks'[j] = tasks[j]
    ]_vars

\* two requests are in flight at once, both spawned from popovers that are
\* closed by now
C8_Witness ==
    /\ ~Open
    /\ Len(tasks) >= 2
    /\ tasks[1].pc = "sending"
    /\ tasks[2].pc = "sending"

\* C9: a submission ends in Ok exactly when serialization, request
\* construction and transport succeeded and the status is 2xx; each failure
\* ends it in Err; it made at most one send attempt, and none when it failed
\* before the send.
C9_OkIffAllSucceed ==
    \A i \in 1..Len(tasks) :
        LET task == tasks[i]
        IN  /\ Len(task.requests) <= 1
            /\ ~Ended(task) => task.result = "pending"
            /\ Ended(task) =>
                  /\ task.result \in {"Ok", "Err"}
                  /\ task.result = "Ok" <=>
                        /\ task.failed_at = None
                        /\ task.status # None
                        /\ 200 <= unwrap(task.status)
                        /\ unwrap(task.status) <= 299
                  /\ task.failed_at \in {Some("to_vec"), Some("body")} => task.requests = << >>
                  /\ task.failed_at = Some("body") => ~UriParses(task.feedback_endpoint)
                  /\ ~UriParses(task.feedback_endpoint) =>
                        task.failed_at \in {Some("to_vec"), Some("body")}
                  /\ task.status # None => Len(task.requests) = 1

\* one submission ended in Ok and another in Err on a non-2xx status
C9_Witness ==
    /\ Len(tasks) = 2
    /\ tasks[1].result = "Ok"
    /\ tasks[2].result = "Err"
    /\ tasks[2].status = Some(300)

\* C10 as stated: on every edit the remaining count is the range's end minus
\* the buffer length, computed without underflow, and the subscription
\* changes nothing of the popover or the button.
C10_RemainingNeverUnderflows ==
    [][EditBuffer =>
         /\ ~panicked'
         /\ feedback_chars_remaining' # None
         /\ LET r == unwrap(feedback_chars_remaining')
                len == TextLen(views'[views'[unwrap(feedback_popover')].feedback_editor].text)
            IN  /\ r[3] = 0 /\ r[4] = 0 /\ r[2] = 0
                /\ r[1] + len = FEEDBACK_CHAR_COUNT_RANGE.end
         /\ UNCHANGED << feedback_popover, next_view_id, focus, rendered, tasks >>
    ]_vars

====
